---- MODULE Spec2Model ----
(***************************************************************************)
(* Temporal scheduling and unification engine (services/timeService.ts)    *)
(* together with the task handlers of TimeHubView that feed it.            *)
(*                                                                         *)
(* Time.  A Date is its epoch timestamp.  The model counts timestamps in   *)
(* MINUTES since 1970-01-01T00:00Z (every clock value the engine builds    *)
(* has zero seconds and milliseconds).  The host's time zone is the        *)
(* variable off: local clock = UTC clock + off minutes.                    *)
(*                                                                         *)
(* Strings.  A date string "YYYY-MM-DD" is the record [y, m, d]; a clock   *)
(* string "HH:MM" and a schedule text are tuples of one-character strings. *)
(* An optional field is a tuple of length 0 (absent) or 1 (present).       *)
(***************************************************************************)
EXTENDS Integers, Sequences, FiniteSets, TLC

VARIABLES
    tasks,        \* AppState.tasks
    assignments,  \* AppState.assignments
    courses,      \* AppState.courses
    wellbeing,    \* AppState.wellbeing
    now,          \* wall clock read by new Date()
    off,          \* local clock offset from UTC, minutes
    startRange,   \* window of the last query
    endRange,
    events,       \* CalendarEvent[] returned by the last query
    op,           \* the operation that acted last
    called,       \* the entry points called directly so far, in order
    selectedDate, \* the Date handed to the week helpers
    weekNum,      \* number returned by the last getISOWeek
    weekRange,    \* {start, end} returned by the last getISOWeekRange
    engine        \* how the host's Date.parse reads a day the month does not have

vars == <<tasks, assignments, courses, wellbeing, now, off,
          startRange, endRange, events, op, called,
          selectedDate, weekNum, weekRange, engine>>

----------------------------------------------------------------------------
(* Date: the calendar arithmetic of the JavaScript Date object             *)

MinutesPerHour == 60
MinutesPerDay == 24 * MinutesPerHour

None == <<>>
Some(x) == <<x>>

\* days since 1970-01-01 of the proleptic Gregorian date y-m-d
DaysFromCivil(y0, m, d) ==
    LET y   == IF m <= 2 THEN y0 - 1 ELSE y0
        era == y \div 400
        yoe == y - era * 400
        mp  == IF m > 2 THEN m - 3 ELSE m + 9
        doy == (153 * mp + 2) \div 5 + d - 1
        doe == yoe * 365 + yoe \div 4 - yoe \div 100 + doy
    IN  era * 146097 + doe - 719468

\* the Gregorian date of a day number
CivilFromDays(z0) ==
    LET z   == z0 + 719468
        era == z \div 146097
        doe == z - era * 146097
        yoe == (doe - doe \div 1460 + doe \div 36524 - doe \div 146096) \div 365
        doy == doe - (365 * yoe + yoe \div 4 - yoe \div 100)
        mp  == (5 * doy + 2) \div 153
        d   == doy - (153 * mp + 2) \div 5 + 1
        m   == IF mp < 10 THEN mp + 3 ELSE mp - 9
        y   == yoe + era * 400 + (IF m <= 2 THEN 1 ELSE 0)
    IN  [y |-> y, m |-> m, d |-> d]

\* 1970-01-01 was a Thursday; 0 = Sunday .. 6 = Saturday
WeekdayOfDay(z) == (z + 4) % 7

DateStr(y, m, d) == [y |-> y, m |-> m, d |-> d]
DayOfDateStr(s) == DaysFromCivil(s.y, s.m, s.d)

\* new Date("YYYY-MM-DD"): a date-only string is read as UTC midnight
DateParse(s) == DayOfDateStr(s) * MinutesPerDay

DaysInMonth(y, m) ==
    IF m = 12 THEN 31 ELSE DaysFromCivil(y, m + 1, 1) - DaysFromCivil(y, m, 1)
IsCalendarDate(s) == s.m \in 1..12 /\ s.d \in 1..DaysInMonth(s.y, s.m)

\* whether new Date(s) has a time value: a day the month does not have is
\* Invalid Date (NaN) on a strict engine and rolls into the next month on a
\* lenient one, which DaysFromCivil reproduces
ValidDate(s) == IsCalendarDate(s) \/ engine = "lenient"

\* the local calendar day (day number) a timestamp falls on
LocalDay(t) == (t + off) \div MinutesPerDay
\* minute of the local day, 0 .. 1439
LocalMinuteOfDay(t) == (t + off) % MinutesPerDay
\* the timestamp of local clock time hh:mm (fields may overflow) on a local day
LocalTime(day, hh, mm) == day * MinutesPerDay + hh * MinutesPerHour + mm - off

getDay(t) == WeekdayOfDay(LocalDay(t))
getDate(t) == CivilFromDays(LocalDay(t)).d
getMonth(t) == CivilFromDays(LocalDay(t)).m - 1
getFullYear(t) == CivilFromDays(LocalDay(t)).y
getHours(t) == LocalMinuteOfDay(t) \div MinutesPerHour
\* toDateString(): weekday, month, day and year of the local date
toDateString(t) == CivilFromDays(LocalDay(t))
\* toISOString().split('T')[0]: the UTC calendar date
toISODate(t) == CivilFromDays(t \div MinutesPerDay)
\* setHours(h, m [, 0, 0]) on a date whose seconds are zero
setHours(t, hh, mm) == LocalTime(LocalDay(t), hh, mm)
\* mutant: setHours(h, 0), the minutes are reset
setHoursOnTheHour(t, hh) == LocalTime(LocalDay(t), hh, 0)
\* setHours(h) keeps the minutes
setHoursOnly(t, hh) == LocalTime(LocalDay(t), hh, LocalMinuteOfDay(t) % MinutesPerHour)
\* setMinutes(mm) keeps the local day and hour
setMinutes(t, mm) == LocalTime(LocalDay(t), getHours(t), mm)
\* setDate(dd) keeps year, month and the clock time
setDate(t, dd) ==
    LET c == CivilFromDays(LocalDay(t))
    IN  (DaysFromCivil(c.y, c.m, 1) + dd - 1) * MinutesPerDay
            + LocalMinuteOfDay(t) - off

----------------------------------------------------------------------------
(* Text                                                                    *)

Digits == {"0", "1", "2", "3", "4", "5", "6", "7", "8", "9"}
DigitVal(c) ==
    CASE c = "0" -> 0 [] c = "1" -> 1 [] c = "2" -> 2 [] c = "3" -> 3
      [] c = "4" -> 4 [] c = "5" -> 5 [] c = "6" -> 6 [] c = "7" -> 7
      [] c = "8" -> 8 [] c = "9" -> 9

\* Number / parseInt of a non-empty run of digits
RECURSIVE DigitsToNumber(_)
DigitsToNumber(cs) ==
    IF cs = <<>> THEN 0
    ELSE DigitsToNumber(SubSeq(cs, 1, Len(cs) - 1)) * 10 + DigitVal(cs[Len(cs)])

\* position of the first ":" of a text, 0 when there is none
ColonAt(cs) ==
    IF \E i \in 1..Len(cs) : cs[i] = ":"
    THEN CHOOSE i \in 1..Len(cs) : cs[i] = ":" /\ \A j \in 1..(i - 1) : cs[j] # ":"
    ELSE 0

\* time.split(':').map(Number) of a clock string "HH:MM": <<h, m>>
SplitTime(cs) ==
    LET c == ColonAt(cs)
    IN  <<DigitsToNumber(SubSeq(cs, 1, c - 1)),
          DigitsToNumber(SubSeq(cs, c + 1, Len(cs)))>>

----------------------------------------------------------------------------
(* getISOWeek, getISOWeekRange                                             *)
(* A Date handed to the week helpers is [t, ms]: its minute and the        *)
(* seconds and milliseconds within that minute, as milliseconds 0..59999.  *)

\* a <= b on Dates with milliseconds
NotAfter(a, b) == a.t < b.t \/ (a.t = b.t /\ a.ms <= b.ms)

\* Math.ceil(a / b) for a >= 0, b > 0
Ceil(a, b) == (a + b - 1) \div b

\* mutant: getUTCDay() without the || 7, Sunday counts as day 0
ISODayNumSundayFirst(n) == WeekdayOfDay(n)

\* dayNum = d.getUTCDay() || 7 of the UTC day n
ISODayNum(n) == IF WeekdayOfDay(n) = 0 THEN 7 ELSE WeekdayOfDay(n)

\* d is the local calendar date re-read as a UTC midnight, counted in days
getISOWeek(date) ==
    LET d         == DaysFromCivil(getFullYear(date.t), getMonth(date.t) + 1, getDate(date.t))
        thursday  == d + 4 - ISODayNum(d)
        yearStart == DaysFromCivil(CivilFromDays(thursday).y, 1, 1)
    IN  Ceil((thursday - yearStart) + 1, 7)

\* mutant: getDay() without the || 7, Sunday counts as day 0
WeekRangeDaySundayFirst(t) == getDay(t)

\* day = start.getDay() || 7
WeekRangeDay(t) == IF getDay(t) = 0 THEN 7 ELSE getDay(t)

getISOWeekRange(date) ==
    LET day   == WeekRangeDay(date.t)
        back  == IF day # 1 THEN setHoursOnly(date.t, -24 * (day - 1)) ELSE date.t
        start == [t |-> setHours(back, 0, 0), ms |-> 0]
        end   == [t  |-> setHours(setDate(start.t, getDate(start.t) + 6), 23, 59),
                  ms |-> 59 * 1000 + 999]
    IN  [start |-> start, end |-> end]

\* the caller's Date after getISOWeek: d is built from the date's fields
DateAfterWeek(date) == date

\* mutant: start is the caller's Date itself, not a copy
DateAfterWeekRangeAliased(date) == getISOWeekRange(date).start

\* the caller's Date after getISOWeekRange: start = new Date(date) is a copy
DateAfterWeekRange(date) == date

----------------------------------------------------------------------------
(* generateTaskEvents                                                      *)

dayMilliseconds == 24 * 60      \* one day, in the model's unit (minutes)

DefaultTaskColor == "#64748b"

Max(a, b) == IF a >= b THEN a ELSE b

\* let h = 9, m = 0; if (task.time) [h, m] = task.time.split(':').map(Number)
TaskClock(task) ==
    IF task.time # None /\ task.time[1] # <<>>
    THEN SplitTime(task.time[1])
    ELSE <<9, 0>>

\* mutant: a duration of zero is used as it is
TaskDurationNoDefault(task) == task.durationMinutes

\* task.durationMinutes || 30
TaskDuration(task) == IF task.durationMinutes # 0 THEN task.durationMinutes ELSE 30

\* mutant: the iterator keeps the clock time of the later of the two dates
IteratorStartUntruncated(taskStart, sr) == Max(sr, taskStart)

\* iterator = new Date(Math.max(startRange, taskStart)); iterator.setHours(0,0,0,0)
IteratorStart(taskStart, sr) == setHours(Max(sr, taskStart), 0, 0)

\* the switch over task.recurrence
shouldRender(task, taskStart, iterator) ==
    CASE task.recurrence = "daily"   -> TRUE
      [] task.recurrence = "weekly"  -> getDay(iterator) = getDay(taskStart)
      [] task.recurrence = "monthly" -> getDate(iterator) = getDate(taskStart)
      [] task.recurrence = "yearly"  -> /\ getDate(iterator) = getDate(taskStart)
                                        /\ getMonth(iterator) = getMonth(taskStart)
      [] task.recurrence = "custom"  -> /\ task.customDays # None
                                        /\ \E i \in 1..Len(task.customDays[1]) :
                                               task.customDays[1][i] = getDay(iterator)
      [] task.recurrence = "once"    -> toDateString(iterator) = toDateString(taskStart)
      [] OTHER                       -> FALSE

Includes(seq, x) == \E i \in 1..Len(seq) : seq[i] = x

\* mutant: completion is looked up under the local calendar date of the day
TaskEventLocalLookup(task, iterator) ==
    LET hm         == TaskClock(task)
        eventStart == setHours(iterator, hm[1], hm[2])
        eventEnd   == setMinutes(eventStart, hm[2] + TaskDuration(task))
        dateStr    == toISODate(iterator)
    IN  [ id          |-> <<"task", task.id, dateStr.y, dateStr.m, dateStr.d>>,
          title       |-> <<task.title>>,
          start       |-> eventStart,
          end         |-> eventEnd,
          type        |-> "Task",
          color       |-> IF task.color # "" THEN task.color ELSE DefaultTaskColor,
          isCompleted |-> Includes(task.completionHistory, toDateString(iterator)),
          meta        |-> [taskId |-> task.id, dateKey |-> dateStr] ]

\* the occurrence pushed for one rendered day
TaskEvent(task, iterator) ==
    LET hm         == TaskClock(task)
        eventStart == setHours(iterator, hm[1], hm[2])
        eventEnd   == setMinutes(eventStart, hm[2] + TaskDuration(task))
        dateStr    == toISODate(iterator)
    IN  [ id          |-> <<"task", task.id, dateStr.y, dateStr.m, dateStr.d>>,
          title       |-> <<task.title>>,
          start       |-> eventStart,
          end         |-> eventEnd,
          type        |-> "Task",
          color       |-> IF task.color # "" THEN task.color ELSE DefaultTaskColor,
          isCompleted |-> Includes(task.completionHistory, dateStr),
          meta        |-> [taskId |-> task.id, dateKey |-> dateStr] ]

\* mutant: the loop stops one day early
LoopIteratorsStopEarly(iterator, er) ==
    LET n == IF iterator <= er THEN (er - iterator) \div dayMilliseconds ELSE 0
    IN  [ k \in 1..n |-> iterator + (k - 1) * dayMilliseconds ]

\* the values the iterator takes inside the loop, in order
LoopIterators(iterator, er) ==
    LET n == IF iterator <= er THEN (er - iterator) \div dayMilliseconds + 1 ELSE 0
    IN  [ k \in 1..n |-> iterator + (k - 1) * dayMilliseconds ]

\* while (iterator <= endRange) { ...; iterator.setTime(iterator + dayMilliseconds) }:
\* the iterator takes the values iterator + k * dayMilliseconds that are <= endRange,
\* in order, and each value that shouldRender accepts pushes one occurrence
TaskLoop(task, taskStart, iterator, er) ==
    LET visited  == LoopIterators(iterator, er)
        rendered == SelectSeq(visited, LAMBDA it : shouldRender(task, taskStart, it))
    IN  [ i \in 1..Len(rendered) |-> TaskEvent(task, rendered[i]) ]

\* mutant: archived tasks are expanded like active ones
ExpandTaskAnyStatus(task, sr, er) ==
    IF ~ValidDate(task.startDate) THEN <<>>
    ELSE LET taskStart == DateParse(task.startDate)
         IN  TaskLoop(task, taskStart, IteratorStart(taskStart, sr), er)

\* the body of tasks.forEach for one task; with an Invalid Date taskStart the
\* iterator is Invalid Date too and iterator <= endRange is false at once
ExpandTask(task, sr, er) ==
    IF task.status = "archived" THEN <<>>
    ELSE IF ~ValidDate(task.startDate) THEN <<>>
    ELSE LET taskStart == DateParse(task.startDate)
         IN  TaskLoop(task, taskStart, IteratorStart(taskStart, sr), er)

RECURSIVE generateTaskEvents(_, _, _)
generateTaskEvents(ts, sr, er) ==
    IF ts = <<>> THEN <<>>
    ELSE ExpandTask(Head(ts), sr, er) \o generateTaskEvents(Tail(ts), sr, er)

----------------------------------------------------------------------------
(* parseCourseSchedule                                                     *)

UpperCase == <<"A", "B", "C", "D", "E", "F", "G", "H", "I", "J", "K", "L", "M",
               "N", "O", "P", "Q", "R", "S", "T", "U", "V", "W", "X", "Y", "Z">>
LowerCase == <<"a", "b", "c", "d", "e", "f", "g", "h", "i", "j", "k", "l", "m",
               "n", "o", "p", "q", "r", "s", "t", "u", "v", "w", "x", "y", "z">>

toLowerCase(cs) ==
    [ i \in 1..Len(cs) |->
        IF \E k \in 1..26 : UpperCase[k] = cs[i]
        THEN LowerCase[CHOOSE k \in 1..26 : UpperCase[k] = cs[i]]
        ELSE cs[i] ]

\* String.prototype.includes
StrIncludes(cs, key) ==
    \E i \in 1..(Len(cs) - Len(key) + 1) : SubSeq(cs, i, i + Len(key) - 1) = key

TBA == <<"T", "B", "A">>

\* insertion order of the keys of daysMap
daysMap ==
    << [key |-> <<"s", "u", "n">>, day |-> 0], [key |-> <<"m", "o", "n">>, day |-> 1],
       [key |-> <<"t", "u", "e">>, day |-> 2], [key |-> <<"w", "e", "d">>, day |-> 3],
       [key |-> <<"t", "h", "u">>, day |-> 4], [key |-> <<"f", "r", "i">>, day |-> 5],
       [key |-> <<"s", "a", "t">>, day |-> 6],
       [key |-> <<"m">>, day |-> 1], [key |-> <<"t">>, day |-> 2],
       [key |-> <<"w">>, day |-> 3], [key |-> <<"t", "h">>, day |-> 4],
       [key |-> <<"f">>, day |-> 5] >>

\* mutant: a text without a time token is read as 9 o'clock
timeMatchDefaulted(lower) ==
    IF \A i \in 1..Len(lower) : lower[i] \notin Digits
    THEN Some([ g1 |-> <<"9">>, g3 |-> <<>> ])
    ELSE LET i  == CHOOSE k \in 1..Len(lower) :
                       lower[k] \in Digits /\ \A j \in 1..(k - 1) : lower[j] \notin Digits
             n1 == IF i + 1 <= Len(lower) /\ lower[i + 1] \in Digits THEN 2 ELSE 1
             j  == i + n1
             g2 == /\ j + 2 <= Len(lower)
                   /\ lower[j] = ":"
                   /\ lower[j + 1] \in Digits
                   /\ lower[j + 2] \in Digits
         IN  Some([ g1 |-> SubSeq(lower, i, j - 1),
                    g3 |-> IF g2 THEN SubSeq(lower, j + 1, j + 2) ELSE <<>> ])

\* lower.match(/(\d{1,2})(:(\d{2}))?\s*(am|pm)?/): the leftmost match, greedy;
\* g1 and g3 are the texts of groups 1 and 3 (g3 empty when unmatched)
timeMatch(lower) ==
    IF \A i \in 1..Len(lower) : lower[i] \notin Digits THEN None
    ELSE LET i  == CHOOSE k \in 1..Len(lower) :
                       lower[k] \in Digits /\ \A j \in 1..(k - 1) : lower[j] \notin Digits
             n1 == IF i + 1 <= Len(lower) /\ lower[i + 1] \in Digits THEN 2 ELSE 1
             j  == i + n1
             g2 == /\ j + 2 <= Len(lower)
                   /\ lower[j] = ":"
                   /\ lower[j + 1] \in Digits
                   /\ lower[j + 2] \in Digits
         IN  Some([ g1 |-> SubSeq(lower, i, j - 1),
                    g3 |-> IF g2 THEN SubSeq(lower, j + 1, j + 2) ELSE <<>> ])

\* mutant: an hour of 12 is never turned into 0
ScheduleHoursNoMidnight(lower, g1) ==
    LET hours == DigitsToNumber(g1)
        isPM  == StrIncludes(lower, <<"p", "m">>)
    IN  IF isPM /\ hours < 12 THEN hours + 12 ELSE hours

\* hours after the 12-hour adjustment
ScheduleHours(lower, g1) ==
    LET hours == DigitsToNumber(g1)
        isPM  == StrIncludes(lower, <<"p", "m">>)
        h1    == IF isPM /\ hours < 12 THEN hours + 12 ELSE hours
    IN  IF ~isPM /\ h1 = 12 THEN 0 ELSE h1

ScheduleMinutes(g3) == IF g3 # <<>> THEN DigitsToNumber(g3) ELSE 0

\* one forEach pass over Object.keys(daysMap); long selects the 3-letter keys
RECURSIVE ScanDays(_, _, _, _)
ScanDays(lower, k, long, acc) ==
    IF k > Len(daysMap) THEN acc
    ELSE LET e   == daysMap[k]
             hit == /\ StrIncludes(lower, e.key)
                    /\ (Len(e.key) = 3) = long
                    /\ ~Includes(acc, e.day)
         IN  ScanDays(lower, k + 1, long, IF hit THEN Append(acc, e.day) ELSE acc)

activeDays(lower) ==
    LET first == ScanDays(lower, 1, TRUE, <<>>)
    IN  IF Len(first) = 0 THEN ScanDays(lower, 1, FALSE, <<>>) ELSE first

\* mutant: the week is not rolled back to its Sunday
startOfWeekToday(nw) == setHours(nw, 0, 0)

\* now.setDate(now.getDate() - now.getDay()); setHours(0,0,0,0): Sunday 00:00
startOfWeek(nw) == setHours(setDate(nw, getDate(nw) - getDay(nw)), 0, 0)

\* mutant: the block ends one hour after it starts
CourseEventOneHour(sow, dayIndex, hours, minutes, courseName, courseColor, courseId) ==
    LET eventDate == setHours(setDate(sow, getDate(sow) + dayIndex), hours, minutes)
        endDate   == setHours(eventDate, hours + 1, minutes)
    IN  [ id    |-> <<"course", courseId, dayIndex>>,
          title |-> <<courseName>>,
          start |-> eventDate,
          end   |-> endDate,
          type  |-> "Course",
          color |-> courseColor,
          meta  |-> [courseId |-> courseId] ]

CourseEvent(sow, dayIndex, hours, minutes, courseName, courseColor, courseId) ==
    LET eventDate == setHours(setDate(sow, getDate(sow) + dayIndex), hours, minutes)
        endDate   == setHours(eventDate, hours + 1, minutes + 30)
    IN  [ id    |-> <<"course", courseId, dayIndex>>,
          title |-> <<courseName>>,
          start |-> eventDate,
          end   |-> endDate,
          type  |-> "Course",
          color |-> courseColor,
          meta  |-> [courseId |-> courseId] ]

parseCourseSchedule(scheduleStr, courseName, courseColor, courseId, nw) ==
    IF scheduleStr = <<>> \/ scheduleStr = TBA THEN <<>>
    ELSE LET lower == toLowerCase(scheduleStr)
             tm    == timeMatch(lower)
         IN  IF tm = None THEN <<>>
             ELSE LET hours   == ScheduleHours(lower, tm[1].g1)
                      minutes == ScheduleMinutes(tm[1].g3)
                      days    == activeDays(lower)
                      sow     == startOfWeek(nw)
                  IN  [ i \in 1..Len(days) |->
                          CourseEvent(sow, days[i], hours, minutes,
                                      courseName, courseColor, courseId) ]

----------------------------------------------------------------------------
(* getUnifiedEvents                                                        *)

ExamColor == "#f43f5e"
FallbackColor == "#a855f7"
WellbeingColor == "#10b981"

\* new Date("YYYY-MM-DDTHH:MM"): a date-time string without zone is local time
DateTimeParse(s) == LocalTime(DaysFromCivil(s.y, s.m, s.d), s.hh, s.mm)

RECURSIVE Flatten(_)
Flatten(ss) == IF ss = <<>> THEN <<>> ELSE Head(ss) \o Flatten(Tail(ss))

\* color of the first course with the assignment's courseId, if any
CourseColorOf(cs, courseId) ==
    IF \E i \in 1..Len(cs) : cs[i].id = courseId
    THEN LET i == CHOOSE k \in 1..Len(cs) :
                     cs[k].id = courseId /\ \A j \in 1..(k - 1) : cs[j].id # courseId
         IN  IF cs[i].color # "" THEN cs[i].color ELSE FallbackColor
    ELSE FallbackColor

\* mutant: the status of the assignment is not looked at
AssignmentEventsAnyStatus(a, cs, sr, er) ==
    IF ~ValidDate(a.dueDate) THEN <<>>
    ELSE LET dueDate == DateTimeParse(a.dueDate)
         IN  IF dueDate >= sr /\ dueDate <= er
             THEN << [ id    |-> <<"assign", a.id>>,
                       title |-> <<"DUE: ", a.title>>,
                       start |-> setHoursOnly(dueDate, getHours(dueDate) - 1),
                       end   |-> dueDate,
                       type  |-> "Assignment",
                       color |-> IF a.type = "Exam" THEN ExamColor
                                 ELSE CourseColorOf(cs, a.courseId),
                       meta  |-> [assignmentId |-> a.id, weight |-> a.weight] ] >>
             ELSE <<>>

\* with an Invalid Date dueDate both comparisons are false
AssignmentEvents(a, cs, sr, er) ==
    IF a.status = "completed" THEN <<>>
    ELSE IF ~ValidDate(a.dueDate) THEN <<>>
    ELSE LET dueDate == DateTimeParse(a.dueDate)
         IN  IF dueDate >= sr /\ dueDate <= er
             THEN << [ id    |-> <<"assign", a.id>>,
                       title |-> <<"DUE: ", a.title>>,
                       start |-> setHoursOnly(dueDate, getHours(dueDate) - 1),
                       end   |-> dueDate,
                       type  |-> "Assignment",
                       color |-> IF a.type = "Exam" THEN ExamColor
                                 ELSE CourseColorOf(cs, a.courseId),
                       meta  |-> [assignmentId |-> a.id, weight |-> a.weight] ] >>
             ELSE <<>>

CourseEvents(c, nw) ==
    IF c.schedule # None /\ c.schedule[1] # <<>>
    THEN parseCourseSchedule(c.schedule[1], c.name, c.color, c.id, nw)
    ELSE <<>>

\* mutant: the index of the activity is left out of the id
ActivityEventsLogId(log, idx) ==
    LET act == log.activities[idx]
    IN  IF act.time # None /\ act.time[1] # <<>>
        THEN LET hm   == SplitTime(act.time[1])
                 date == setHours(DateParse(log.date), hm[1], hm[2])
                 end  == setMinutes(date, hm[2] + (IF act.durationMinutes # 0
                                                    THEN act.durationMinutes ELSE 30))
             IN  << [ id    |-> <<"wb", log.id, 0>>,
                      title |-> <<act.name>>,
                      start |-> date,
                      end   |-> end,
                      type  |-> "Wellbeing",
                      color |-> WellbeingColor,
                      meta  |-> [type |-> act.type] ] >>
        ELSE <<>>

ActivityEvents(log, idx) ==
    LET act == log.activities[idx]
    IN  IF act.time # None /\ act.time[1] # <<>>
        THEN LET hm   == SplitTime(act.time[1])
                 date == setHours(DateParse(log.date), hm[1], hm[2])
                 end  == setMinutes(date, hm[2] + (IF act.durationMinutes # 0
                                                    THEN act.durationMinutes ELSE 30))
             IN  << [ id    |-> <<"wb", log.id, idx - 1>>,
                      title |-> <<act.name>>,
                      start |-> date,
                      end   |-> end,
                      type  |-> "Wellbeing",
                      color |-> WellbeingColor,
                      meta  |-> [type |-> act.type] ] >>
        ELSE <<>>

\* with an Invalid Date logDate both comparisons are false
WellbeingEvents(log, sr, er) ==
    IF ~ValidDate(log.date) THEN <<>>
    ELSE LET logDate == DateParse(log.date)
         IN  IF logDate >= sr /\ logDate <= er
             THEN Flatten([ i \in 1..Len(log.activities) |-> ActivityEvents(log, i) ])
             ELSE <<>>

\* mutant: elements that start at the same time come out in reverse order
SortByStartTiesReversed(es) ==
    LET n      == Len(es)
        placed == { << Cardinality({ j \in 1..n : \/ es[j].start < es[i].start
                                                  \/ es[j].start = es[i].start /\ j > i }) + 1,
                       i >> : i \in 1..n }
    IN  [ k \in 1..n |-> es[(CHOOSE p \in placed : p[1] = k)[2]] ]

\* Array.prototype.sort with (a, b) => a.start - b.start: ascending and stable,
\* an element moves behind exactly those that start earlier, or start at the same
\* time and precede it in the array
SortByStart(es) ==
    LET n      == Len(es)
        placed == { << Cardinality({ j \in 1..n : \/ es[j].start < es[i].start
                                                  \/ es[j].start = es[i].start /\ j < i }) + 1,
                       i >> : i \in 1..n }
    IN  [ k \in 1..n |-> es[(CHOOSE p \in placed : p[1] = k)[2]] ]

\* the events array before the final sort, in gathering order
GatherEvents(as, cs, ws, ts, sr, er, nw) ==
    Flatten([ i \in 1..Len(as) |-> AssignmentEvents(as[i], cs, sr, er) ])
    \o Flatten([ i \in 1..Len(cs) |-> CourseEvents(cs[i], nw) ])
    \o Flatten([ i \in 1..Len(ws) |-> WellbeingEvents(ws[i], sr, er) ])
    \o generateTaskEvents(ts, sr, er)

\* mutant: the gathered events are returned without the sort
getUnifiedEventsUnsorted(as, cs, ws, ts, sr, er, nw) ==
    GatherEvents(as, cs, ws, ts, sr, er, nw)

getUnifiedEvents(as, cs, ws, ts, sr, er, nw) ==
    SortByStart(GatherEvents(as, cs, ws, ts, sr, er, nw))

\* mutant: the iterator is startRange itself, so setHours(0,0,0,0) moves the
\* caller's Date to local midnight
WindowAfterCallAliased(sr, er) == <<setHours(sr, 0, 0), er>>

\* the Date objects a call receives, as the call leaves them: every Date the
\* engine mutates (iterator, eventStart, startDate, ...) is a fresh new Date(...)
WindowAfterCall(sr, er) == <<sr, er>>

----------------------------------------------------------------------------
(* Inputs                                                                  *)

\* local clock offsets of the host: UTC-5, UTC, UTC+2
Offsets == {-300, 0, 120}

Recurrences == {"once", "daily", "weekly", "monthly", "yearly", "custom"}

\* 2024-03-10 is a Sunday, 2024-03-12 a Tuesday, 2024-03-31 a Sunday
StartDates == {DateStr(2024, 3, 10), DateStr(2024, 3, 12), DateStr(2024, 3, 31)}
EndDates == {None, Some(DateStr(2024, 3, 20))}
CustomDaysInputs == {None, Some(<<>>), Some(<<1, 3, 5>>)}
TimeInputs == {None, Some(<<"1", "4", ":", "3", "0">>)}
DurationInputs == {0, 60}

NewTask(id, rec, cd, sd, ed, st, tm, dur) ==
    [ id |-> id, title |-> "task", status |-> st, recurrence |-> rec,
      customDays |-> cd, time |-> tm, durationMinutes |-> dur,
      startDate |-> sd, endDate |-> ed, completionHistory |-> <<>>,
      color |-> "#3b82f6" ]

TaskInputs(id) ==
    { NewTask(id, rec, cd, sd, ed, st, tm, dur) :
        rec \in Recurrences \ {"custom"}, cd \in {Some(<<>>)}, sd \in StartDates,
        ed \in EndDates, st \in {"active", "archived"}, tm \in TimeInputs,
        dur \in DurationInputs }
    \cup
    { NewTask(id, "custom", cd, sd, ed, st, tm, dur) :
        cd \in CustomDaysInputs, sd \in StartDates,
        ed \in EndDates, st \in {"active", "archived"}, tm \in TimeInputs,
        dur \in DurationInputs }

\* a window given by local clock times, as the views build it
LocalWindow(d1, m1, d2, m2) ==
    [ s |-> LocalTime(DayOfDateStr(d1), 0, m1), e |-> LocalTime(DayOfDateStr(d2), 0, m2) ]

WindowInputs ==
    { \* new Date("2024-03-01") .. new Date("2024-03-31")
      [ s |-> DateParse(DateStr(2024, 3, 1)), e |-> DateParse(DateStr(2024, 3, 31)) ],
      \* 21 days from Tuesday 2024-03-12
      LocalWindow(DateStr(2024, 3, 12), 0, DateStr(2024, 4, 1), 1439),
      \* one full week, Sunday to Saturday
      LocalWindow(DateStr(2024, 3, 10), 0, DateStr(2024, 3, 16), 1439),
      \* bounds that are not day-aligned
      LocalWindow(DateStr(2024, 3, 11), 630, DateStr(2024, 3, 20), 1065),
      \* a 30-day month and the month after it
      LocalWindow(DateStr(2024, 4, 1), 0, DateStr(2024, 5, 31), 1439),
      \* a week that ends before every start date
      LocalWindow(DateStr(2024, 3, 3), 0, DateStr(2024, 3, 9), 1439) }

----------------------------------------------------------------------------
(* Spec: the Time Hub over one AppState                                    *)

MaxTasks == 2       \* tasks kept in the registry

Clock(hh, mm) == Some(<<hh[1], hh[2], ":", mm[1], mm[2]>>)

\* the records the three task modals save, and one archived record
SavedTaskInputs(id) ==
    { NewTask(id, "once", None, DateStr(2024, 3, 12), None, "active",
              Clock(<<"1", "4">>, <<"3", "0">>), 60),
      NewTask(id, "daily", Some(<<>>), DateStr(2024, 3, 10), Some(DateStr(2024, 3, 20)),
              "active", Clock(<<"0", "9">>, <<"0", "0">>), 60),
      NewTask(id, "weekly", Some(<<>>), DateStr(2024, 3, 12), None, "active",
              Clock(<<"0", "8">>, <<"0", "0">>), 60),
      NewTask(id, "monthly", Some(<<>>), DateStr(2024, 3, 10), None, "active",
              Clock(<<"1", "4">>, <<"3", "0">>), 0),
      NewTask(id, "yearly", Some(<<>>), DateStr(2024, 3, 12), None, "active", None, 60),
      NewTask(id, "custom", Some(<<1, 3, 5>>), DateStr(2024, 3, 10), None, "active",
              Clock(<<"0", "9">>, <<"0", "0">>), 30),
      NewTask(id, "daily", Some(<<>>), DateStr(2024, 3, 10), None, "archived",
              Clock(<<"0", "9">>, <<"0", "0">>), 60) }

\* what the quick, routine and plan modals submit
HubTaskInputs(id) ==
    { NewTask(id, "once", None, DateStr(2024, 3, 12), None, "active",
              Clock(<<"1", "4">>, <<"3", "0">>), 60),
      NewTask(id, "custom", Some(<<1, 3, 5>>), DateStr(2024, 3, 10), None, "active",
              Clock(<<"0", "9">>, <<"0", "0">>), 30),
      NewTask(id, "once", None, DateStr(2024, 3, 13), None, "active",
              Clock(<<"0", "9">>, <<"0", "0">>), 60) }

DateKeyInputs == {DateStr(2024, 3, 12), DateStr(2024, 3, 13)}

DateTimeStr(y, m, d, hh, mm) == [y |-> y, m |-> m, d |-> d, hh |-> hh, mm |-> mm]

InitAssignments ==
    << [ id |-> "a1", courseId |-> "c1", title |-> "Essay", status |-> "pending",
         dueDate |-> DateTimeStr(2024, 3, 14, 9, 0), weight |-> 20, type |-> "Homework" ],
       [ id |-> "a2", courseId |-> "c1", title |-> "Quiz", status |-> "completed",
         dueDate |-> DateTimeStr(2024, 3, 13, 12, 0), weight |-> 10, type |-> "Quiz" ],
       [ id |-> "a3", courseId |-> "c9", title |-> "Final", status |-> "in-progress",
         dueDate |-> DateTimeStr(2024, 3, 11, 8, 0), weight |-> 40, type |-> "Exam" ] >>

InitCourses ==
    << [ id |-> "c1", name |-> "Algebra", color |-> "#22c55e",
         schedule |-> Some(<<"M", "o", "n", "/", "W", "e", "d", " ",
                            "1", "0", ":", "0", "0", " ", "A", "M">>) ],
       [ id |-> "c2", name |-> "Physics", color |-> "#0ea5e9", schedule |-> Some(TBA) ] >>

InitWellbeing ==
    << [ id |-> "w1", date |-> DateStr(2024, 3, 13),
         activities |->
           << [ type |-> "Sport", name |-> "Run", durationMinutes |-> 0,
                time |-> Clock(<<"0", "8">>, <<"0", "0">>) ],
              [ type |-> "Social", name |-> "Call", durationMinutes |-> 20,
                time |-> Some(<<>>) ] >> ] >>

\* windows of the Time Hub: a padded day view, unaligned bounds, parsed dates
HubWindows ==
    { LocalWindow(DateStr(2024, 3, 6), 0, DateStr(2024, 3, 20), 1439),
      LocalWindow(DateStr(2024, 3, 11), 630, DateStr(2024, 3, 14), 1065),
      [ s |-> DateParse(DateStr(2024, 3, 12)), e |-> DateParse(DateStr(2024, 3, 14)) ] }

HubNow == LocalTime(DayOfDateStr(DateStr(2024, 3, 13)), 8, 15)

\* Wednesday 2024-03-13 08:15 and Sunday 2024-03-17 21:00, local time
NowInputs ==
    { LocalTime(DayOfDateStr(DateStr(2024, 3, 13)), 8, 15),
      LocalTime(DayOfDateStr(DateStr(2024, 3, 17)), 21, 0) }

TaskIdsInUse == { tasks[i].id : i \in 1..Len(tasks) }

\* Date.now().toString(): a value no stored task carries
FreshTaskId == CHOOSE n \in 1..(Len(tasks) + 1) : n \notin TaskIdsInUse

\* the effect that follows every change of data or of the view range
Refresh(ts, sr, er) == getUnifiedEvents(assignments, courses, wellbeing, ts, sr, er, now)

Init ==
    /\ off \in Offsets
    /\ now = HubNow
    /\ tasks = <<>>
    /\ assignments = InitAssignments
    /\ courses = InitCourses
    /\ wellbeing = InitWellbeing
    /\ \E w \in HubWindows : startRange = w.s /\ endRange = w.e
    /\ events = Refresh(tasks, startRange, endRange)
    /\ op = "init"
    /\ called = <<>>
    /\ selectedDate = [t |-> now, ms |-> 0]
    /\ weekNum = 0
    /\ weekRange = None
    /\ engine = "strict"

\* the view range changes and the events are regenerated for the new window
ChangeViewRange ==
    \E w \in HubWindows :
        /\ <<w.s, w.e>> # <<startRange, endRange>>
        /\ events' = Refresh(tasks, w.s, w.e)
        /\ startRange' = WindowAfterCall(w.s, w.e)[1]
        /\ endRange' = WindowAfterCall(w.s, w.e)[2]
        /\ op' = "getUnifiedEvents"
        /\ UNCHANGED <<tasks, assignments, courses, wellbeing, now, off, called,
                     selectedDate, weekNum, weekRange, engine>>

handleSaveTask ==
    \E task \in HubTaskInputs(FreshTaskId) :
        /\ Len(tasks) < MaxTasks
        /\ tasks' = Append(tasks, task)
        /\ events' = Refresh(tasks', startRange, endRange)
        /\ op' = "handleSaveTask"
        /\ UNCHANGED <<assignments, courses, wellbeing, now, off, startRange, endRange, called,
                       selectedDate, weekNum, weekRange, engine>>

\* mutant: the filter keeps nothing
RemoveKeyAll(history, dateKey) == <<>>

\* task.completionHistory.filter(d => d !== dateKey)
RemoveKey(history, dateKey) == SelectSeq(history, LAMBDA d : d # dateKey)

\* newHistory: the date is filtered out when present and appended when absent
ToggleHistory(history, dateKey) ==
    IF Includes(history, dateKey)
    THEN RemoveKey(history, dateKey)
    ELSE Append(history, dateKey)

\* if (taskIndex === -1) return: no update of the data and no regeneration
toggleTaskCompletion ==
    \E taskId \in 1..(MaxTasks + 1), dateKey \in DateKeyInputs :
        IF \A i \in 1..Len(tasks) : tasks[i].id # taskId
        THEN /\ op' = "toggleTaskCompletion"
             /\ UNCHANGED <<tasks, events, assignments, courses, wellbeing, now, off,
                            startRange, endRange, called, selectedDate, weekNum,
                            weekRange, engine>>
        ELSE /\ LET taskIndex == CHOOSE i \in 1..Len(tasks) :
                                    tasks[i].id = taskId
                                        /\ \A j \in 1..(i - 1) : tasks[j].id # taskId
                    task       == tasks[taskIndex]
                    newHistory == ToggleHistory(task.completionHistory, dateKey)
                IN  tasks' = [tasks EXCEPT ![taskIndex].completionHistory = newHistory]
             /\ events' = Refresh(tasks', startRange, endRange)
             /\ op' = "toggleTaskCompletion"
             /\ UNCHANGED <<assignments, courses, wellbeing, now, off, startRange, endRange,
                            called, selectedDate, weekNum, weekRange, engine>>

deleteTask ==
    \E taskId \in 1..(MaxTasks + 1) :
        /\ tasks' = SelectSeq(tasks, LAMBDA t : t.id # taskId)
        /\ events' = Refresh(tasks', startRange, endRange)
        /\ op' = "deleteTask"
        /\ UNCHANGED <<assignments, courses, wellbeing, now, off, startRange, endRange, called,
                       selectedDate, weekNum, weekRange, engine>>

Next ==
    \/ ChangeViewRange
    \/ handleSaveTask
    \/ toggleTaskCompletion
    \/ deleteTask

Spec == Init /\ [][Next]_vars

----------------------------------------------------------------------------
(* Direct calls of the two exported entry points on one stored state       *)

MaxCalls == 2       \* calls made in one behaviour

CallGetUnifiedEvents ==
    /\ Len(called) < MaxCalls
    /\ events' = getUnifiedEvents(assignments, courses, wellbeing, tasks,
                                  startRange, endRange, now)
    /\ startRange' = WindowAfterCall(startRange, endRange)[1]
    /\ endRange' = WindowAfterCall(startRange, endRange)[2]
    /\ op' = "getUnifiedEvents"
    /\ called' = Append(called, "getUnifiedEvents")
    /\ UNCHANGED <<tasks, assignments, courses, wellbeing, now, off,
                 selectedDate, weekNum, weekRange, engine>>

CallGenerateTaskEvents ==
    /\ Len(called) < MaxCalls
    /\ events' = generateTaskEvents(tasks, startRange, endRange)
    /\ startRange' = WindowAfterCall(startRange, endRange)[1]
    /\ endRange' = WindowAfterCall(startRange, endRange)[2]
    /\ op' = "generateTaskEvents"
    /\ called' = Append(called, "generateTaskEvents")
    /\ UNCHANGED <<tasks, assignments, courses, wellbeing, now, off,
                 selectedDate, weekNum, weekRange, engine>>

NextCall == CallGetUnifiedEvents \/ CallGenerateTaskEvents

\* SpecExpand: one task of any shape, any window
InitExpand ==
    /\ off \in Offsets
    /\ now = HubNow
    /\ tasks \in { <<t>> : t \in TaskInputs(1) }
    /\ assignments = InitAssignments
    /\ courses = InitCourses
    /\ wellbeing = InitWellbeing
    /\ \E w \in WindowInputs : startRange = w.s /\ endRange = w.e
    /\ events = <<>>
    /\ op = "init"
    /\ called = <<>>
    /\ selectedDate = [t |-> now, ms |-> 0]
    /\ weekNum = 0
    /\ weekRange = None
    /\ engine = "strict"

SpecExpand == InitExpand /\ [][NextCall]_vars

\* every registry of at most MaxTasks saved tasks, ids in order of creation
TaskLists ==
    UNION { { ts \in [1..n -> UNION { SavedTaskInputs(i) : i \in 1..n }] :
                \A i \in 1..n : ts[i].id = i } : n \in 0..MaxTasks }

\* SpecUnify: a registry of saved tasks next to the other three sources
InitUnify ==
    /\ off \in Offsets
    /\ now \in NowInputs
    /\ tasks \in TaskLists
    /\ assignments = InitAssignments
    /\ courses = InitCourses
    /\ wellbeing = InitWellbeing
    /\ \E w \in HubWindows : startRange = w.s /\ endRange = w.e
    /\ events = <<>>
    /\ op = "init"
    /\ called = <<>>
    /\ selectedDate = [t |-> now, ms |-> 0]
    /\ weekNum = 0
    /\ weekRange = None
    /\ engine = "strict"

SpecUnify == InitUnify /\ [][NextCall]_vars

----------------------------------------------------------------------------
(* Properties                                                              *)

Range(seq) == { seq[i] : i \in 1..Len(seq) }
EventIds(es) == [ i \in 1..Len(es) |-> es[i].id ]
HasId(es, id) == \E j \in 1..Len(es) : es[j].id = id
TypesOf(es) == { es[i].type : i \in 1..Len(es) }

Gathered ==
    GatherEvents(assignments, courses, wellbeing, tasks, startRange, endRange, now)

\* C1: the sequence returned by getUnifiedEvents is sorted ascending by start:
\* every adjacent pair satisfies result[i].start <= result[i+1].start.
ThmC1_Sorted ==
    op = "getUnifiedEvents" =>
        \A i \in 1..(Len(events) - 1) : events[i].start <= events[i + 1].start

\* a call whose gathered events were out of order, from more than one source
WitC1_Reordered ==
    /\ op = "getUnifiedEvents"
    /\ Cardinality(TypesOf(events)) >= 3
    /\ \E i, j \in 1..Len(Gathered) : i < j /\ Gathered[i].start > Gathered[j].start

WidenBy == {0, 615, 2000}

\* windows [a', b'] with a' <= a and b' >= b
WiderWindows(a, b) ==
    { [s |-> a - da, e |-> b + db] : da \in WidenBy, db \in WidenBy }
    \cup { w \in HubWindows : w.s <= a /\ w.e >= b }

UnifiedOver(w) ==
    getUnifiedEvents(assignments, courses, wellbeing, tasks, w.s, w.e, now)

\* C3: window monotonicity: every occurrence id returned over [a, b] is also
\* returned over any [a', b'] with a' <= a and b' >= b, for all four sources.
ThmC3_WindowMonotone ==
    op = "getUnifiedEvents" =>
        \A w \in WiderWindows(startRange, endRange) :
            LET wider == { e.id : e \in Range(UnifiedOver(w)) }
            IN  \A i \in 1..Len(events) : events[i].id \in wider

\* a call that returned all four kinds of occurrence and that a wider window
\* strictly extends
WitC3_Widened ==
    /\ op = "getUnifiedEvents"
    /\ TypesOf(events) = {"Assignment", "Course", "Wellbeing", "Task"}
    /\ \E w \in WiderWindows(startRange, endRange) : Len(UnifiedOver(w)) > Len(events)

TaskOf(e) == CHOOSE k \in 1..Len(tasks) : tasks[k].id = e.meta.taskId

\* C10: an archived task contributes no occurrence to generateTaskEvents or to
\* getUnifiedEvents, whatever its recurrence rule and the window.
ThmC10_ArchivedSkipped ==
    op # "init" =>
        \A i \in 1..Len(events) :
            events[i].type = "Task" => tasks[TaskOf(events[i])].status # "archived"

\* a call on an archived task that an active status would have rendered
WitC10_ArchivedInWindow ==
    /\ op # "init"
    /\ \E k \in 1..Len(tasks) :
          /\ tasks[k].status = "archived"
          /\ ExpandTask([tasks[k] EXCEPT !.status = "active"], startRange, endRange) # <<>>

----------------------------------------------------------------------------
(* Recurrence expansion, task by task                                      *)

\* the local calendar day an occurrence is dated on
EventDay(e) == LocalDay(e.start)

StartDay(k) == DayOfDateStr(tasks[k].startDate)
DomOfDay(d) == CivilFromDays(d).d

\* the occurrences of the k-th task in the last result
OccurrencesOf(k) ==
    SelectSeq(events, LAMBDA e : e.type = "Task" /\ e.meta.taskId = tasks[k].id)

\* the calendar days the window [startRange, endRange] touches
WindowDays == LocalDay(startRange)..LocalDay(endRange)

\* the k-th task has exactly one occurrence on each day of D and none elsewhere
ExactlyOn(k, D) ==
    /\ Len(OccurrencesOf(k)) = Cardinality(D)
    /\ { EventDay(e) : e \in Range(OccurrencesOf(k)) } = D

Expanded(k, rec) ==
    /\ op # "init"
    /\ tasks[k].status = "active"
    /\ tasks[k].recurrence = rec

CustomDaySet(k) ==
    IF tasks[k].customDays = None THEN {} ELSE Range(tasks[k].customDays[1])

\* C4: a task with an endDate has no occurrence on a calendar date after endDate
\* (endDate itself included), for every recurrence rule and window.
CexC4_EndDateRespected ==
    op # "init" =>
        \A i \in 1..Len(events) :
            (events[i].type = "Task" /\ tasks[TaskOf(events[i])].endDate # None)
                => EventDay(events[i]) <= DayOfDateStr(tasks[TaskOf(events[i])].endDate[1])

\* C5: no occurrence is generated on a calendar date before the task's startDate,
\* for every recurrence rule, window and local clock offset.
CexC5_NotBeforeStartDate ==
    op # "init" =>
        \A i \in 1..Len(events) :
            events[i].type = "Task" => EventDay(events[i]) >= StartDay(TaskOf(events[i]))

\* C6: a 'once' task has exactly one occurrence, dated on its startDate, when the
\* window contains that date, and none when it does not.
CexC6_OnceOnStartDate ==
    \A k \in 1..Len(tasks) :
        Expanded(k, "once") =>
            ExactlyOn(k, IF StartDay(k) \in WindowDays THEN {StartDay(k)} ELSE {})

\* C7: a 'weekly' task occurs on exactly the days of the window, on or after
\* startDate, whose weekday is startDate's weekday (hence 7 days apart).
CexC7_WeeklyOnStartWeekday ==
    \A k \in 1..Len(tasks) :
        Expanded(k, "weekly") =>
            ExactlyOn(k, { d \in WindowDays :
                             /\ d >= StartDay(k)
                             /\ WeekdayOfDay(d) = WeekdayOfDay(StartDay(k)) })

\* C8: a 'custom' task occurs on exactly the days of the window, on or after
\* startDate, whose weekday index is in customDays; never when customDays is
\* empty or absent.
CexC8_CustomOnListedWeekdays ==
    \A k \in 1..Len(tasks) :
        Expanded(k, "custom") =>
            ExactlyOn(k, { d \in WindowDays :
                             /\ d >= StartDay(k)
                             /\ WeekdayOfDay(d) \in CustomDaySet(k) })

\* C9: a 'monthly' task occurs on a day of the window (on or after startDate) iff
\* the day-of-month equals startDate's day-of-month; a month without that day
\* gets no occurrence.
CexC9_MonthlyOnStartDayOfMonth ==
    \A k \in 1..Len(tasks) :
        Expanded(k, "monthly") =>
            ExactlyOn(k, { d \in WindowDays :
                             /\ d >= StartDay(k)
                             /\ DomOfDay(d) = tasks[k].startDate.d })

----------------------------------------------------------------------------
(* Task occurrences and completion                                         *)

TaskOccurrences == SelectSeq(events, LAMBDA e : e.type = "Task")

\* the text "task_" + taskId + "_" + dateKey, piece by piece
TaskOccurrenceId(taskId, dateKey) == <<"task", taskId, dateKey.y, dateKey.m, dateKey.d>>

\* C11: a task occurrence has id "task_" + task.id + "_" + dateKey and meta
\* {taskId, dateKey}, and its isCompleted flag is true iff dateKey is a member of
\* the task's completionHistory at the time of the query.
ThmC11_OccurrenceKeyed ==
    \A i \in 1..Len(TaskOccurrences) :
        LET e == TaskOccurrences[i]
        IN  /\ DOMAIN e.meta = {"taskId", "dateKey"}
            /\ \E k \in 1..Len(tasks) : tasks[k].id = e.meta.taskId
            /\ e.id = TaskOccurrenceId(tasks[TaskOf(e)].id, e.meta.dateKey)
            /\ e.isCompleted
                  <=> Includes(tasks[TaskOf(e)].completionHistory, e.meta.dateKey)

\* one task with a completed and an open occurrence in the same result
WitC11_DoneAndOpen ==
    \E i, j \in 1..Len(TaskOccurrences) :
        /\ TaskOccurrences[i].meta.taskId = TaskOccurrences[j].meta.taskId
        /\ TaskOccurrences[i].isCompleted
        /\ ~TaskOccurrences[j].isCompleted

\* the toggle just taken changed the membership of dateKey in the k-th task
Toggled(k, dateKey) ==
    /\ op' = "toggleTaskCompletion"
    /\ k \in 1..Len(tasks)
    /\ Includes(tasks[k].completionHistory, dateKey)
          # Includes(tasks'[k].completionHistory, dateKey)

\* the occurrences of the k-th task that the regenerated result shows on a date
OccurrencesOnDate(k, dateKey) ==
    { e \in Range(events') : /\ e.type = "Task"
                             /\ e.meta.taskId = tasks'[k].id
                             /\ toDateString(e.start) = dateKey }

\* toggling the same date of the same task again gives back the history set
ToggleUndone(k, dateKey) ==
    Range(ToggleHistory(tasks'[k].completionHistory, dateKey))
        = Range(tasks[k].completionHistory)

\* C12: completion toggle round trip: toggleTaskCompletion followed at once by
\* toggleTaskCompletion with the same task and date returns completionHistory to
\* its original set, and after each toggle the isCompleted flag of the occurrence
\* regenerated for that date equals the membership of the date in
\* completionHistory.
CexC12_ToggleRoundTrip ==
    [][ \A k \in 1..Len(tasks), dateKey \in DateKeyInputs :
            Toggled(k, dateKey) =>
                /\ ToggleUndone(k, dateKey)
                /\ \A e \in OccurrencesOnDate(k, dateKey) :
                       e.isCompleted <=> Includes(tasks'[k].completionHistory, dateKey)
      ]_vars

----------------------------------------------------------------------------
(* SpecWeek: the week helpers on dates around eight turns of the year      *)

WeekYears == 2019..2026
WeekDays ==
    UNION { DaysFromCivil(y, 12, 22)..DaysFromCivil(y + 1, 1, 11) : y \in WeekYears }
    \cup (DaysFromCivil(2024, 3, 10)..DaysFromCivil(2024, 3, 16))

\* clock times as <<minute of the day, milliseconds within the minute>>:
\* 00:00:00.000, 00:00:00.001, 12:34:56.789, 23:59:59.999
WeekClocks == { <<0, 0>>, <<0, 1>>, <<754, 56789>>, <<1439, 59999>> }

CallGetISOWeek ==
    /\ Len(called) < MaxCalls
    /\ weekNum' = getISOWeek(selectedDate)
    /\ selectedDate' = DateAfterWeek(selectedDate)
    /\ op' = "getISOWeek"
    /\ called' = Append(called, "getISOWeek")
    /\ UNCHANGED <<tasks, assignments, courses, wellbeing, now, off,
                   startRange, endRange, events, weekRange, engine>>

CallGetISOWeekRange ==
    /\ Len(called) < MaxCalls
    /\ weekRange' = getISOWeekRange(selectedDate)
    /\ selectedDate' = DateAfterWeekRange(selectedDate)
    /\ op' = "getISOWeekRange"
    /\ called' = Append(called, "getISOWeekRange")
    /\ UNCHANGED <<tasks, assignments, courses, wellbeing, now, off,
                   startRange, endRange, events, weekNum, engine>>

NextWeek == CallGetISOWeek \/ CallGetISOWeekRange

InitWeek ==
    /\ off \in Offsets
    /\ now = HubNow
    /\ tasks = <<>>
    /\ assignments = InitAssignments
    /\ courses = InitCourses
    /\ wellbeing = InitWellbeing
    /\ startRange = now
    /\ endRange = now
    /\ events = <<>>
    /\ op = "init"
    /\ called = <<>>
    /\ \E n \in WeekDays, c \in WeekClocks :
           selectedDate = [t |-> LocalTime(n, 0, c[1]), ms |-> c[2]]
    /\ weekNum = 0
    /\ weekRange = None
    /\ engine = "strict"

SpecWeek == InitWeek /\ [][NextWeek]_vars

\* C13: for every input date getISOWeekRange returns start = Monday 00:00:00.000
\* of the date's week and end = the following Sunday 23:59:59.999, with
\* start <= date <= end; a Sunday input is day 7 (start is 6 days earlier) and a
\* Wednesday input gives the Monday 2 days prior.
ThmC13_MondayToSunday ==
    op = "getISOWeekRange" =>
        /\ getDay(weekRange.start.t) = 1
        /\ LocalMinuteOfDay(weekRange.start.t) = 0
        /\ weekRange.start.ms = 0
        /\ getDay(weekRange.end.t) = 0
        /\ LocalMinuteOfDay(weekRange.end.t) = MinutesPerDay - 1
        /\ weekRange.end.ms = 59999
        /\ LocalDay(weekRange.end.t) = LocalDay(weekRange.start.t) + 6
        /\ NotAfter(weekRange.start, selectedDate)
        /\ NotAfter(selectedDate, weekRange.end)
        /\ getDay(selectedDate.t) = 0
              => LocalDay(weekRange.start.t) = LocalDay(selectedDate.t) - 6
        /\ getDay(selectedDate.t) = 3
              => LocalDay(weekRange.start.t) = LocalDay(selectedDate.t) - 2

\* the range of a Sunday afternoon, and of a Wednesday, has been computed
WitC13_SundayInput ==
    /\ op = "getISOWeekRange"
    /\ getDay(selectedDate.t) = 0
    /\ LocalMinuteOfDay(selectedDate.t) = 754
    /\ LocalDay(weekRange.start.t) = LocalDay(selectedDate.t) - 6

\* ISO 8601 by its definition: the Thursday of the week of day n, the year that
\* Thursday lies in, and that year's first Thursday
ThursdayOfWeek(n) == n - ((WeekdayOfDay(n) + 6) % 7) + 3
FirstThursday(y) ==
    CHOOSE k \in DaysFromCivil(y, 1, 1)..DaysFromCivil(y, 1, 7) : WeekdayOfDay(k) = 4
ISOWeekOfDay(n) ==
    (ThursdayOfWeek(n) - FirstThursday(CivilFromDays(ThursdayOfWeek(n)).y)) \div 7 + 1

\* noon of local day n
NoonOf(n) == [t |-> LocalTime(n, 12, 0), ms |-> 0]

\* C14: for every calendar date getISOWeek returns the ISO-8601 week number: it
\* is in 1..53, the seven days Monday..Sunday of one week get the same number,
\* week 1 is the week containing the year's first Thursday, and dates of late
\* December / early January that belong to the neighbouring ISO year get that
\* year's week number.
ThmC14_ISOWeekNumber ==
    op = "getISOWeek" =>
        LET n      == LocalDay(selectedDate.t)
            monday == ThursdayOfWeek(n) - 3
        IN  /\ weekNum \in 1..53
            /\ weekNum = ISOWeekOfDay(n)
            /\ \A k \in monday..(monday + 6) : getISOWeek(NoonOf(k)) = weekNum

\* a Sunday in January numbered in the old year's last week
WitC14_JanuaryInOldYear ==
    /\ op = "getISOWeek"
    /\ getMonth(selectedDate.t) = 0
    /\ getDay(selectedDate.t) = 0
    /\ weekNum = 53

----------------------------------------------------------------------------
(* SpecParse: one course whose schedule text varies                        *)

DayNames ==
    << <<"S", "u", "n">>, <<"M", "o", "n">>, <<"T", "u", "e">>, <<"W", "e", "d">>,
       <<"T", "h", "u">>, <<"F", "r", "i">>, <<"S", "a", "t">> >>

\* weekday names joined by "/"
RECURSIVE JoinDays(_)
JoinDays(ds) ==
    IF Len(ds) = 1 THEN DayNames[ds[1] + 1]
    ELSE DayNames[ds[1] + 1] \o <<"/">> \o JoinDays(Tail(ds))

\* a time as it is typed, and the clock time hh:mm it denotes
ClockInputs ==
    { [ text |-> <<"1", "0", ":", "0", "0">>, suffix |-> <<" ", "A", "M">>, hh |-> 10, mm |-> 0 ],
      [ text |-> <<"2", ":", "3", "0">>,      suffix |-> <<" ", "P", "M">>, hh |-> 14, mm |-> 30 ],
      [ text |-> <<"1", "2", ":", "0", "0">>, suffix |-> <<" ", "A", "M">>, hh |-> 0,  mm |-> 0 ],
      [ text |-> <<"1", "2", ":", "1", "5">>, suffix |-> <<" ", "P", "M">>, hh |-> 12, mm |-> 15 ],
      [ text |-> <<"1", "1", ":", "4", "5">>, suffix |-> <<"p", "m">>,      hh |-> 23, mm |-> 45 ],
      [ text |-> <<"9">>,                     suffix |-> <<" ", "a", "m">>, hh |-> 9,  mm |-> 0 ],
      [ text |-> <<"1", "4", ":", "0", "0">>, suffix |-> <<>>,              hh |-> 14, mm |-> 0 ] }

DayListInputs == { <<1, 3>>, <<2, 4>>, <<1, 1>>, <<1, 3, 5>>, <<6, 0>>, <<5>> }

\* schedules that name weekdays by 3-letter abbreviations and give one time
WeekdaySchedules == { [days |-> ds, clock |-> c] : ds \in DayListInputs, c \in ClockInputs }

ScheduleText(s) == JoinDays(s.days) \o <<" ">> \o s.clock.text \o s.clock.suffix

\* "", "TBA", "tba", "Mon/Wed", "Online", "MWF", "MWF 9:00 AM", "TTh 2:00 PM"
OtherScheduleTexts ==
    { <<>>, TBA, <<"t", "b", "a">>,
      <<"M", "o", "n", "/", "W", "e", "d">>,
      <<"O", "n", "l", "i", "n", "e">>,
      <<"M", "W", "F">>,
      <<"M", "W", "F", " ", "9", ":", "0", "0", " ", "A", "M">>,
      <<"T", "T", "h", " ", "2", ":", "0", "0", " ", "P", "M">> }

ScheduleInputs == { ScheduleText(s) : s \in WeekdaySchedules } \cup OtherScheduleTexts

DigitChars == <<"0", "1", "2", "3", "4", "5", "6", "7", "8", "9">>

\* a number 0..99 as it is typed, without and with a leading zero
NumText(n) == IF n < 10 THEN <<DigitChars[n + 1]>>
              ELSE <<DigitChars[(n \div 10) + 1], DigitChars[(n % 10) + 1]>>
TwoDigits(n) == <<DigitChars[(n \div 10) + 1], DigitChars[(n % 10) + 1]>>

\* 12-hour times: hour 1..12, optional minutes, am or pm, in two spellings
TwelveHourTimes ==
    { [h |-> h, mm |-> mm, pm |-> pm, caps |-> caps] :
        h \in 1..12, mm \in {None, Some(5), Some(30)}, pm \in BOOLEAN, caps \in BOOLEAN }

\* "Mon 12:05 PM", "Mon 7pm", ...
TwelveHourText(s) ==
    <<"M", "o", "n", " ">> \o NumText(s.h)
        \o (IF s.mm = None THEN <<>> ELSE <<":">> \o TwoDigits(s.mm[1]))
        \o (IF s.caps THEN <<" ", (IF s.pm THEN "P" ELSE "A"), "M">>
             ELSE <<(IF s.pm THEN "p" ELSE "a"), "m">>)

\* the hour of the day a 12-hour time denotes
TwentyFourHour(h, pm) ==
    IF pm THEN (IF h = 12 THEN 12 ELSE h + 12) ELSE (IF h = 12 THEN 0 ELSE h)

\* schedules written with letter tokens, and the weekdays the tokens name
LetterTokens ==
    { [ text |-> <<"M", "W", "F">>, days |-> {1, 3, 5} ],
      [ text |-> <<"T", "T", "h">>, days |-> {2, 4} ],
      [ text |-> <<"T", "h">>,      days |-> {4} ],
      [ text |-> <<"W", "F">>,      days |-> {3, 5} ],
      [ text |-> <<"M">>,           days |-> {1} ] }

LetterTimes ==
    { <<" ", "9", ":", "0", "0", " ", "A", "M">>,
      <<" ", "2", ":", "0", "0", " ", "P", "M">>,
      <<" ", "1", "4", ":", "0", "0">> }

LetterSchedules == { [tokens |-> k, time |-> t] : k \in LetterTokens, t \in LetterTimes }

LetterText(s) == s.tokens.text \o s.time

AllScheduleInputs ==
    ScheduleInputs
    \cup { TwelveHourText(s) : s \in TwelveHourTimes }
    \cup { LetterText(s) : s \in LetterSchedules }

\* clock readings: the two of NowInputs, Wednesday 2024-04-03 10:00 (its week
\* starts in March) and Saturday 2024-03-02 23:30 (its week starts in February)
ParseNows ==
    NowInputs
    \cup { LocalTime(DayOfDateStr(DateStr(2024, 4, 3)), 10, 0),
           LocalTime(DayOfDateStr(DateStr(2024, 3, 2)), 23, 30) }

\* the schedule string of a course, "" when it has none
ScheduleString(c) == IF c.schedule = None THEN <<>> ELSE c.schedule[1]

CallParseCourseSchedule ==
    \E i \in 1..Len(courses) :
        /\ Len(called) < MaxCalls
        /\ events' = parseCourseSchedule(ScheduleString(courses[i]), courses[i].name,
                                         courses[i].color, courses[i].id, now)
        /\ op' = "parseCourseSchedule"
        /\ called' = Append(called, "parseCourseSchedule")
        /\ UNCHANGED <<tasks, assignments, courses, wellbeing, now, off, startRange, endRange,
                       selectedDate, weekNum, weekRange, engine>>

NextParse == CallParseCourseSchedule \/ CallGetUnifiedEvents

InitParse ==
    /\ off \in Offsets
    /\ now \in ParseNows
    /\ tasks = <<>>
    /\ assignments = InitAssignments
    /\ courses \in { << [ id |-> "c1", name |-> "Algebra", color |-> "#22c55e",
                            schedule |-> Some(text) ] >> : text \in AllScheduleInputs }
    /\ wellbeing = InitWellbeing
    /\ \E w \in HubWindows : startRange = w.s /\ endRange = w.e
    /\ events = <<>>
    /\ op = "init"
    /\ called = <<>>
    /\ selectedDate = [t |-> now, ms |-> 0]
    /\ weekNum = 0
    /\ weekRange = None
    /\ engine = "strict"

SpecParse == InitParse /\ [][NextParse]_vars

\* the schedule text of the one course of SpecParse
ParsedText == ScheduleString(courses[1])

CourseBlocks == SelectSeq(events, LAMBDA e : e.type = "Course")

\* a time token needs at least one digit
NoTimeToken(text) == \A i \in 1..Len(text) : text[i] \notin Digits

\* C16: parseCourseSchedule returns zero occurrences, without raising, when the
\* schedule string is empty, equals the sentinel "TBA", or contains no time token.
ThmC16_NoSchedule ==
    (op \in {"parseCourseSchedule", "getUnifiedEvents"}
       /\ (ParsedText = <<>> \/ ParsedText = TBA \/ NoTimeToken(ParsedText)))
        => CourseBlocks = <<>>

\* a text that names weekdays but no time has been parsed
WitC16_DaysWithoutTime ==
    /\ op = "parseCourseSchedule"
    /\ ParsedText \notin {<<>>, TBA}
    /\ NoTimeToken(ParsedText)
    /\ activeDays(toLowerCase(ParsedText)) = <<1, 3>>
    /\ events = <<>>

\* C17: for a schedule string naming weekdays by 3-letter abbreviations and one
\* time, parseCourseSchedule returns exactly one occurrence per distinct named
\* weekday, each starting at the parsed clock time and ending exactly 1 hour 30
\* minutes later ("Mon/Wed 10:00 AM": exactly 2 occurrences, 10:00 to 11:30).
ThmC17_OneBlockPerWeekday ==
    op = "parseCourseSchedule" =>
        \A s \in WeekdaySchedules :
            ScheduleText(s) = ParsedText =>
                /\ Len(events) = Cardinality(Range(s.days))
                /\ { e.id[3] : e \in Range(events) } = Range(s.days)
                /\ \A e \in Range(events) :
                      /\ getDay(e.start) = e.id[3]
                      /\ LocalMinuteOfDay(e.start) = s.clock.hh * MinutesPerHour + s.clock.mm
                      /\ e.end = e.start + 90

\* "Mon/Wed 10:00 AM" gave two blocks, 10:00 to 11:30
WitC17_MonWedTenAM ==
    /\ op = "parseCourseSchedule"
    /\ ParsedText = InitCourses[1].schedule[1]
    /\ Len(events) = 2
    /\ \A e \in Range(events) :
          /\ LocalMinuteOfDay(e.start) = 10 * MinutesPerHour
          /\ LocalMinuteOfDay(e.end) = 11 * MinutesPerHour + 30

----------------------------------------------------------------------------
(* SpecSources: the four sources at their edges, and all four entry points *)

D0312 == DateStr(2024, 3, 12)
EightOClock == Clock(<<"0", "8">>, <<"0", "0">>)

\* registries: empty; two routines at the same hour; absent time, zero duration,
\* absent customDays, empty time text; a start date the month does not have
EdgeTaskLists ==
    { <<>>,
      << NewTask(1, "daily", Some(<<>>), D0312, None, "active", EightOClock, 60),
         NewTask(2, "daily", Some(<<>>), DateStr(2024, 3, 10), None, "active", EightOClock, 30) >>,
      << NewTask(1, "daily", None, D0312, None, "active", None, 0),
         NewTask(2, "custom", None, DateStr(2024, 3, 10), None, "active", Some(<<>>), 0) >>,
      << NewTask(1, "daily", Some(<<>>), DateStr(2024, 2, 30), None, "active", None, 30),
         NewTask(2, "once", None, DateStr(2024, 3, 13), None, "active", EightOClock, 60) >> }

NewAssignment(id, status, due, type) ==
    [ id |-> id, courseId |-> "c1", title |-> "Essay", status |-> status,
      dueDate |-> due, weight |-> 10, type |-> type ]

\* due dates on, just outside and inside the bounds 2024-03-11 10:30 and
\* 2024-03-14 17:45; every status; equal due dates; a due date that does not
\* exist; due dates in the first and in the last hour of a day
EdgeAssignmentLists ==
    { InitAssignments,
      << NewAssignment("a1", "pending",     DateTimeStr(2024, 3, 13, 9, 0), "Homework"),
         NewAssignment("a2", "overdue",     DateTimeStr(2024, 3, 13, 9, 0), "Exam"),
         NewAssignment("a3", "completed",   DateTimeStr(2024, 3, 13, 9, 0), "Quiz") >>,
      << NewAssignment("a1", "in-progress", DateTimeStr(2024, 3, 11, 10, 30), "Homework"),
         NewAssignment("a2", "pending",     DateTimeStr(2024, 3, 14, 17, 45), "Homework"),
         NewAssignment("a3", "pending",     DateTimeStr(2024, 3, 11, 10, 29), "Homework"),
         NewAssignment("a4", "overdue",     DateTimeStr(2024, 3, 14, 17, 46), "Homework"),
         NewAssignment("a5", "completed",   DateTimeStr(2024, 3, 14, 17, 45), "Homework"),
         NewAssignment("a6", "pending",     DateTimeStr(2024, 2, 30, 9, 0), "Homework") >>,
      << [ id |-> "a1", courseId |-> "c2", title |-> "Lab", status |-> "pending",
           dueDate |-> DateTimeStr(2024, 3, 13, 0, 30), weight |-> 35, type |-> "Project" ],
         NewAssignment("a2", "overdue",     DateTimeStr(2024, 3, 12, 23, 15), "Homework") >> }

\* "Wed 8:00 AM" next to the malformed texts "Online" and "99:99 xm"
EdgeCourseLists ==
    { InitCourses,
      << [ id |-> "c1", name |-> "Algebra", color |-> "#22c55e",
           schedule |-> Some(<<"W", "e", "d", " ", "8", ":", "0", "0", " ", "A", "M">>) ],
         [ id |-> "c2", name |-> "Physics", color |-> "",
           schedule |-> Some(<<"O", "n", "l", "i", "n", "e">>) ],
         [ id |-> "c3", name |-> "Drawing", color |-> "#0ea5e9",
           schedule |-> Some(<<"9", "9", ":", "9", "9", " ", "x", "m">>) ],
         [ id |-> "c4", name |-> "Chemistry", color |-> "#0ea5e9", schedule |-> None ] >> }

NewActivity(name, time, dur) ==
    [ type |-> "Sport", name |-> name, durationMinutes |-> dur, time |-> time ]

EdgeWellbeingLists ==
    { InitWellbeing,
      << [ id |-> "w1", date |-> DateStr(2024, 3, 13),
           activities |-> << NewActivity("Run", EightOClock, 0),
                             NewActivity("Yoga", EightOClock, 45),
                             NewActivity("Nap", None, 20) >> ],
         [ id |-> "w2", date |-> DateStr(2024, 2, 30),
           activities |-> << NewActivity("Swim", EightOClock, 30) >> ],
         [ id |-> "w3", date |-> DateStr(2024, 3, 12), activities |-> <<>> ] >> }

\* unaligned bounds, a padded fortnight, parsed dates, and bounds in reverse
SourceWindows ==
    { LocalWindow(DateStr(2024, 3, 11), 630, DateStr(2024, 3, 14), 1065),
      LocalWindow(DateStr(2024, 3, 6), 0, DateStr(2024, 3, 20), 1439),
      [ s |-> DateParse(DateStr(2024, 3, 12)), e |-> DateParse(DateStr(2024, 3, 14)) ],
      LocalWindow(DateStr(2024, 3, 14), 0, DateStr(2024, 3, 12), 0) }

Engines == {"strict", "lenient"}

NextSources ==
    \/ CallGetUnifiedEvents
    \/ CallGenerateTaskEvents
    \/ CallGetISOWeek
    \/ CallGetISOWeekRange

InitSources ==
    /\ off \in Offsets
    /\ now = HubNow
    /\ tasks \in EdgeTaskLists
    /\ assignments \in EdgeAssignmentLists
    /\ courses \in EdgeCourseLists
    /\ wellbeing \in EdgeWellbeingLists
    /\ \E w \in SourceWindows : startRange = w.s /\ endRange = w.e
    /\ events = <<>>
    /\ op = "init"
    /\ called = <<>>
    /\ selectedDate = [t |-> now, ms |-> 0]
    /\ weekNum = 0
    /\ weekRange = None
    /\ engine \in Engines

SpecSources == InitSources /\ [][NextSources]_vars

DueInWindow(a) ==
    /\ ValidDate(a.dueDate)
    /\ startRange <= DateTimeParse(a.dueDate)
    /\ DateTimeParse(a.dueDate) <= endRange

OccurrencesOfAssignment(a) ==
    { j \in 1..Len(events) :
        events[j].type = "Assignment" /\ events[j].meta.assignmentId = a.id }

\* C18: a completed assignment never appears in the unify output; an assignment
\* whose status is not 'completed' contributes exactly one occurrence iff its due
\* timestamp d satisfies startRange <= d <= endRange, and none otherwise.
ThmC18_AssignmentsInWindow ==
    op = "getUnifiedEvents" =>
        \A i \in 1..Len(assignments) :
            Cardinality(OccurrencesOfAssignment(assignments[i]))
                = IF assignments[i].status # "completed" /\ DueInWindow(assignments[i])
                  THEN 1 ELSE 0

\* due dates on both bounds, one minute outside, and a completed one inside
WitC18_OnTheBounds ==
    /\ op = "getUnifiedEvents"
    /\ \E i, j, k, l \in 1..Len(assignments) :
          /\ assignments[i].status # "completed"
          /\ DateTimeParse(assignments[i].dueDate) = startRange
          /\ assignments[j].status # "completed"
          /\ DateTimeParse(assignments[j].dueDate) = endRange
          /\ assignments[k].status # "completed"
          /\ DateTimeParse(assignments[k].dueDate) = endRange + 1
          /\ assignments[l].status = "completed"
          /\ DueInWindow(assignments[l])
    /\ Cardinality({ j \in 1..Len(events) : events[j].type = "Assignment" }) = 2

GatherPositions ==
    LET g == Gathered IN { <<g[k].id, k>> : k \in 1..Len(g) }

\* position of an occurrence in the array before the sort
GatherIndex(pos, e) == (CHOOSE p \in pos : p[1] = e.id)[2]

SourceRank(e) ==
    CASE e.type = "Assignment" -> 1
      [] e.type = "Course"     -> 2
      [] e.type = "Wellbeing"  -> 3
      [] e.type = "Task"       -> 4

\* position of the record an occurrence comes from in its source collection
SourceIndex(e) ==
    CASE e.type = "Assignment" ->
             CHOOSE i \in 1..Len(assignments) : assignments[i].id = e.meta.assignmentId
      [] e.type = "Course"     ->
             CHOOSE i \in 1..Len(courses) : courses[i].id = e.meta.courseId
      [] e.type = "Wellbeing"  ->
             (CHOOSE i \in 1..Len(wellbeing) : wellbeing[i].id = e.id[2]) * 100 + e.id[3]
      [] e.type = "Task"       -> TaskOf(e)

\* C20: occurrences with equal start time appear in the unify result in
\* source-gathering order: assignments before course blocks before wellbeing
\* activities before tasks, and within one source in the order of the source
\* collection.
ThmC20_TiesInGatherOrder ==
    op = "getUnifiedEvents" =>
        LET pos == GatherPositions
        IN  \A i, j \in 1..Len(events) :
            (i < j /\ events[i].start = events[j].start) =>
                /\ GatherIndex(pos, events[i]) < GatherIndex(pos, events[j])
                /\ SourceRank(events[i]) <= SourceRank(events[j])
                /\ SourceRank(events[i]) = SourceRank(events[j])
                      => SourceIndex(events[i]) < SourceIndex(events[j])

\* six occurrences in a row start together: two assignments, a course block, two
\* activities and a task
WitC20_SixWayTie ==
    /\ op = "getUnifiedEvents"
    /\ \E i \in 1..(Len(events) - 5) :
          /\ \A d \in 1..5 : events[i + d].start = events[i].start
          /\ [ d \in 0..5 |-> events[i + d].type ]
                = [ d \in 0..5 |-> <<"Assignment", "Assignment", "Course",
                                     "Wellbeing", "Wellbeing", "Task">>[d + 1] ]

----------------------------------------------------------------------------
(* Timing of task occurrences                                              *)

\* the minute of the day a clock text "HH:MM" names, 09:00 for an absent one
ClockMinutes(time) ==
    IF time = None \/ time[1] = <<>> THEN 9 * MinutesPerHour
    ELSE LET c == time[1]
         IN  (DigitVal(c[1]) * 10 + DigitVal(c[2])) * MinutesPerHour
                 + DigitVal(c[4]) * 10 + DigitVal(c[5])

\* the days of the loop of the k-th task that its recurrence rule includes
IncludedDays(k) ==
    LET taskStart == DateParse(tasks[k].startDate)
    IN  SelectSeq(LoopIterators(IteratorStart(taskStart, startRange), endRange),
                  LAMBDA it : shouldRender(tasks[k], taskStart, it))

\* C21: each day included by the recurrence rule yields exactly one task
\* occurrence whose start is that day at task.time (09:00 when time is absent)
\* and whose end is exactly durationMinutes after start (30 minutes when
\* durationMinutes is absent or zero).
ThmC21_OnePerIncludedDay ==
    op # "init" =>
        \A k \in 1..Len(tasks) :
            (tasks[k].status = "active" /\ ValidDate(tasks[k].startDate)) =>
                LET days == IncludedDays(k)
                    occ  == OccurrencesOf(k)
                IN  /\ Len(occ) = Len(days)
                    /\ \A i \in 1..Len(occ) :
                          /\ LocalDay(occ[i].start) = LocalDay(days[i])
                          /\ LocalMinuteOfDay(occ[i].start) = ClockMinutes(tasks[k].time)
                          /\ occ[i].end = occ[i].start
                                + (IF tasks[k].durationMinutes = 0 THEN 30
                                   ELSE tasks[k].durationMinutes)

\* a weekly task without time and duration was expanded over several weeks
WitC21_DefaultsUsed ==
    /\ op # "init"
    /\ Len(tasks) = 1
    /\ tasks[1].status = "active"
    /\ tasks[1].recurrence = "weekly"
    /\ tasks[1].time = None
    /\ tasks[1].durationMinutes = 0
    /\ Len(OccurrencesOf(1)) >= 3
    /\ \A e \in Range(events) : e.type = "Task" =>
          LocalMinuteOfDay(e.start) = 9 * MinutesPerHour /\ e.end = e.start + 30

----------------------------------------------------------------------------
(* The schedule parser: clock time, weekdays, week                         *)

BlockDays == { e.id[3] : e \in Range(CourseBlocks) }

\* C23: active weekdays are found in two passes: if the schedule string contains
\* any 3-letter abbreviation the active weekdays are exactly the weekdays so
\* named and letter tokens are ignored; only if none occurs are they taken from
\* the tokens m/t/w/th/f, and then they are exactly the weekdays those tokens
\* name ("th" with a time with am/pm yields Thursday only).
CexC23_TwoPasses ==
    op = "parseCourseSchedule" =>
        /\ \A s \in WeekdaySchedules :
              ScheduleText(s) = ParsedText => BlockDays = Range(s.days)
        /\ \A s \in LetterSchedules :
              LetterText(s) = ParsedText => BlockDays = s.tokens.days

\* the Sunday that starts the week of a timestamp
SundayOf(t) == LocalDay(t) - getDay(t)

IdsAt(nw) ==
    { e.id : e \in Range(parseCourseSchedule(ParsedText, courses[1].name,
                                             courses[1].color, courses[1].id, nw)) }

CexC29_WithinISOWeek ==
    op = "parseCourseSchedule" =>
        LET week == getISOWeekRange([t |-> now, ms |-> 0])
        IN  \A e \in Range(events) : week.start.t <= e.start /\ e.start <= week.end.t

----------------------------------------------------------------------------
(* Assignment and wellbeing occurrences, identity                          *)

AssignmentOf(e) == CHOOSE i \in 1..Len(assignments) : assignments[i].id = e.meta.assignmentId

\* C25: an emitted assignment occurrence has end equal to the due timestamp
\* exactly and start equal to the due timestamp minus 1 hour, and meta
\* {assignmentId, weight}.
ThmC25_HourBeforeDue ==
    op = "getUnifiedEvents" =>
        \A j \in 1..Len(events) :
            events[j].type = "Assignment" =>
                LET a == assignments[AssignmentOf(events[j])]
                IN  /\ events[j].end = DateTimeParse(a.dueDate)
                    /\ events[j].start = DateTimeParse(a.dueDate) - MinutesPerHour
                    /\ events[j].meta = [assignmentId |-> a.id, weight |-> a.weight]

\* an assignment due at 00:30 came out starting the evening before
WitC25_DueAfterMidnight ==
    /\ op = "getUnifiedEvents"
    /\ \E j \in 1..Len(events) :
          /\ events[j].type = "Assignment"
          /\ LocalMinuteOfDay(events[j].end) = 30
          /\ LocalDay(events[j].start) = LocalDay(events[j].end) - 1
          /\ events[j].meta.weight = 35

OccurrencesOfLog(log) ==
    SelectSeq(events, LAMBDA e : e.type = "Wellbeing" /\ e.id[2] = log.id)

TimedActivities(log) ==
    SelectSeq(log.activities, LAMBDA act : act.time # None /\ act.time[1] # <<>>)

\* C26: a wellbeing log whose date lies in [startRange, endRange] contributes
\* exactly one occurrence per activity that has a time and none for activities
\* without one; each such occurrence starts on the log's calendar date at the
\* activity's clock time and ends durationMinutes later (30 when absent or
\* zero); logs dated outside the window contribute nothing.
CexC26_OnLogDate ==
    op = "getUnifiedEvents" =>
        \A i \in 1..Len(wellbeing) :
            LET log   == wellbeing[i]
                occ   == OccurrencesOfLog(log)
                timed == TimedActivities(log)
            IN  IsCalendarDate(log.date) =>
                  IF startRange <= DateParse(log.date) /\ DateParse(log.date) <= endRange
                  THEN /\ Len(occ) = Len(timed)
                       /\ \A k \in 1..Len(occ) :
                             /\ toDateString(occ[k].start) = log.date
                             /\ LocalMinuteOfDay(occ[k].start) = ClockMinutes(timed[k].time)
                             /\ occ[k].end = occ[k].start
                                   + (IF timed[k].durationMinutes = 0 THEN 30
                                      ELSE timed[k].durationMinutes)
                  ELSE occ = <<>>

DistinctIds(records) ==
    \A i, j \in 1..Len(records) : i # j => records[i].id # records[j].id

\* C28: given source records with pairwise distinct ids within each collection,
\* all occurrence ids in one unify result are pairwise distinct.
ThmC28_DistinctOccurrenceIds ==
    ( /\ op = "getUnifiedEvents"
      /\ DistinctIds(tasks) /\ DistinctIds(assignments)
      /\ DistinctIds(courses) /\ DistinctIds(wellbeing) ) =>
        \A i, j \in 1..Len(events) : i # j => events[i].id # events[j].id

\* all four sources present, two occurrences from one log and from one task
WitC28_SeveralPerRecord ==
    /\ op = "getUnifiedEvents"
    /\ DistinctIds(tasks) /\ DistinctIds(assignments)
    /\ DistinctIds(courses) /\ DistinctIds(wellbeing)
    /\ TypesOf(events) = {"Assignment", "Course", "Wellbeing", "Task"}
    /\ \E i, j \in 1..Len(events) :
          i # j /\ events[i].type = "Wellbeing" /\ events[j].type = "Wellbeing"
                /\ events[i].id[2] = events[j].id[2]
    /\ \E i, j \in 1..Len(events) :
          i # j /\ events[i].type = "Task" /\ events[j].type = "Task"
                /\ events[i].meta.taskId = events[j].meta.taskId

----------------------------------------------------------------------------
(* The date key of task occurrences                                        *)

\* C27: the dateKey of every task occurrence (used in its id, its meta and its
\* isCompleted lookup) is the local calendar date YYYY-MM-DD of the occurrence's
\* start, for every local clock offset from UTC; hence a task marked done for
\* the local date D is shown completed on its occurrence on day D.
CexC27_LocalDateKey ==
    op # "init" =>
        \A j \in 1..Len(events) :
            events[j].type = "Task" =>
                LET e     == events[j]
                    local == toDateString(e.start)
                IN  /\ e.meta.dateKey = local
                    /\ e.id = <<"task", e.meta.taskId, local.y, local.m, local.d>>
                    /\ e.isCompleted = Includes(tasks[TaskOf(e)].completionHistory, local)

----------------------------------------------------------------------------
(* Frame of the task handlers                                              *)

\* everything but the task registry and the regenerated occurrences
OtherCollectionsKept ==
    /\ assignments' = assignments
    /\ courses' = courses
    /\ wellbeing' = wellbeing

KnownDates(h1, h2) == Range(h1) \cup Range(h2) \cup DateKeyInputs

\* the step is what a toggle of (taskId, dateKey) may do
ToggleEffect(taskId, dateKey) ==
    IF \A i \in 1..Len(tasks) : tasks[i].id # taskId
    THEN tasks' = tasks /\ events' = events
    ELSE /\ Len(tasks') = Len(tasks)
         /\ \A i \in 1..Len(tasks) :
               IF tasks[i].id = taskId
               THEN LET h1 == tasks[i].completionHistory
                        h2 == tasks'[i].completionHistory
                    IN  /\ [tasks'[i] EXCEPT !.completionHistory = <<>>]
                              = [tasks[i] EXCEPT !.completionHistory = <<>>]
                        /\ Includes(h2, dateKey) # Includes(h1, dateKey)
                        /\ \A d \in KnownDates(h1, h2) \ {dateKey} :
                              Includes(h2, d) = Includes(h1, d)
               ELSE tasks'[i] = tasks[i]

OccurrencesOfOthers(es, taskId) ==
    SelectSeq(es, LAMBDA e : ~(e.type = "Task" /\ e.meta.taskId = taskId))

\* the step is what a delete of taskId may do
DeleteEffect(taskId) ==
    /\ tasks' = SelectSeq(tasks, LAMBDA t : t.id # taskId)
    /\ \A e \in Range(events') : e.type = "Task" => e.meta.taskId # taskId
    /\ OccurrencesOfOthers(events', taskId) = OccurrencesOfOthers(events, taskId)

\* C30: after any sequence of handleSaveTask, toggleTaskCompletion and
\* deleteTask: a toggle changes only the membership of the given date in the
\* given task's completionHistory (all other dates, all other tasks and all
\* other collections unchanged, and a toggle for an unknown task id changes
\* nothing); a delete removes exactly the task with that id, after which unify
\* returns no occurrence whose meta.taskId is that id while other tasks'
\* occurrences are unchanged.
ThmC30_HandlerFrame ==
    [][ /\ op' = "toggleTaskCompletion" =>
              /\ OtherCollectionsKept
              /\ \E taskId \in 1..(MaxTasks + 1), dateKey \in DateKeyInputs :
                    ToggleEffect(taskId, dateKey)
        /\ op' = "deleteTask" =>
              /\ OtherCollectionsKept
              /\ \E taskId \in 1..(MaxTasks + 1) : DeleteEffect(taskId)
      ]_vars

\* two tasks were saved, the second was marked done on two dates and undone on
\* one, then the first was deleted: the second is left with its occurrences
WitC30_DeletedBesideToggled ==
    /\ op = "deleteTask"
    /\ Len(tasks) = 1
    /\ tasks[1].id = 2
    /\ Len(tasks[1].completionHistory) = 1
    /\ \E e \in Range(events) : e.type = "Task" /\ e.meta.taskId = 2 /\ e.isCompleted

====
